---- MODULE Spec2Model ----
(***************************************************************************)
(* A model of bit-buffer-ts (src/src/index.ts): BitView, the bit-addressed *)
(* accessor over a byte region, and BitStream, the cursor built on it.     *)
(*                                                                         *)
(* JavaScript numbers are IEEE-754 doubles and the bitwise operators work  *)
(* on their 32-bit integer conversions.  Both are modelled by what they    *)
(* compute.  A number is held as three limbs <<h, m, l>> standing for      *)
(* h * 2^48 + m * 2^24 + l with 0 <= m, l < 2^24 (h carries the sign), so   *)
(* that 64-bit fields stay inside TLC's 32-bit integers.                  *)
(***************************************************************************)
EXTENDS Integers, Sequences, FiniteSets, TLC

VARIABLES buffer, byteLength, bitIndex, last, consumed, ops, bigEndian

vars == <<buffer, byteLength, bitIndex, last, consumed, ops, bigEndian>>

---------------------------------------------------------------------------
(* Numbers                                                                 *)

Limb == 2^24

Norm3(h, m, l) ==
    LET m1 == m + (l \div Limb)
    IN  <<h + (m1 \div Limb), m1 % Limb, l % Limb>>

FromInt(i) == Norm3(0, 0, i)

Zero == FromInt(0)

Add(a, b) == Norm3(a[1] + b[1], a[2] + b[2], a[3] + b[3])

Sub(a, b) == Norm3(a[1] - b[1], a[2] - b[2], a[3] - b[3])

Neg(a) == Sub(Zero, a)

IsNeg(a) == a[1] < 0

Lt(a, b) == IsNeg(Sub(a, b))

Gt(a, b) == Lt(b, a)

Pow2N(k) ==
    IF k < 24 THEN <<0, 0, 2^k>>
    ELSE IF k < 48 THEN <<0, 2^(k - 24), 0>>
    ELSE <<2^(k - 48), 0, 0>>

\* a * 2^s, exactly
RECURSIVE MulPow2(_, _)
MulPow2(a, s) ==
    IF s > 8 THEN MulPow2(MulPow2(a, 8), s - 8)
    ELSE LET k == 2^s
             r == 2^(24 - s)
         IN  Norm3(a[1] * k + (a[2] \div r), (a[2] % r) * k + (a[3] \div r), (a[3] % r) * k)

\* floor(a / 2^s) for 0 <= s <= 24
DivPow2(a, s) ==
    LET k == 2^s
        r == 2^(24 - s)
    IN  <<a[1] \div k, (a[1] % k) * r + (a[2] \div k), (a[2] % k) * r + (a[3] \div k)>>

\* a mod 2^s, in 0 .. 2^s - 1, for 0 <= s <= 24
ModPow2(a, s) == a[3] % (2^s)

RECURSIVE BitLen(_)
BitLen(x) == IF x = 0 THEN 0 ELSE 1 + BitLen(x \div 2)

NumBitLen(a) ==
    IF a[1] > 0 THEN 48 + BitLen(a[1])
    ELSE IF a[2] > 0 THEN 24 + BitLen(a[2])
    ELSE BitLen(a[3])

\* The significand of a double holds 53 bits.
MantissaBits == 52 + 1

\* Rounding to the nearest double, ties to even: q is the magnitude with
\* its low k bits cleared, r those bits, odd the parity of the bit above.
RoundUp(q, r, k, odd) ==
    IF r > 2^(k - 1) \/ (r = 2^(k - 1) /\ odd) THEN Add(q, Pow2N(k)) ELSE q

RoundAt(mg, k) ==
    IF k <= 0 THEN mg
    ELSE RoundUp(Sub(mg, FromInt(ModPow2(mg, k))), ModPow2(mg, k), k,
                 ModPow2(DivPow2(mg, k), 1) = 1)

RoundMag(mg) == RoundAt(mg, NumBitLen(mg) - MantissaBits)

\* The double nearest to the integer a.
Round(a) == IF IsNeg(a) THEN Neg(RoundMag(Neg(a))) ELSE RoundMag(a)

IsDouble(a) == Round(a) = a

\* Double arithmetic on integer-valued doubles.
DAdd(a, b) == Round(Add(a, b))

DSub(a, b) == Round(Sub(a, b))

DMulPow2(a, s) == Round(MulPow2(a, s))

\* (a / 2^s) where 2^s divides a: exact in doubles
DDivPow2(a, s) == DivPow2(a, s)

\* JavaScript's a % 2^s: the remainder has the sign of the dividend.
JsRem(a, s) ==
    LET f == ModPow2(a, s)
    IN  IF IsNeg(a) /\ f # 0 THEN f - 2^s ELSE f

\* ToInt32: the low 32 bits, read as a signed integer.
ToInt32(a) ==
    LET m8 == a[2] % (2^8)
    IN  IF m8 >= 2^7 THEN (m8 - 2^8) * Limb + a[3] ELSE m8 * Limb + a[3]

\* ToUint32: the low 32 bits, read as an unsigned integer (a number).
ToUint32(a) == <<0, a[2] % (2^8), a[3]>>

---------------------------------------------------------------------------
(* The bitwise operators, on 32-bit signed integers                        *)

RECURSIVE And(_, _)
And(a, b) ==
    IF a = 0 \/ b = 0 THEN 0
    ELSE IF a = -1 THEN b
    ELSE IF b = -1 THEN a
    ELSE (a % 2) * (b % 2) + 2 * And(a \div 2, b \div 2)

RECURSIVE Or(_, _)
Or(a, b) ==
    IF a = 0 THEN b
    ELSE IF b = 0 THEN a
    ELSE IF a = -1 \/ b = -1 THEN -1
    ELSE (IF a % 2 = 1 \/ b % 2 = 1 THEN 1 ELSE 0) + 2 * Or(a \div 2, b \div 2)

Not(a) == -1 - a

RECURSIVE Xor(_, _)
Xor(a, b) ==
    IF a = 0 THEN b
    ELSE IF b = 0 THEN a
    ELSE IF a = -1 THEN Not(b)
    ELSE IF b = -1 THEN Not(a)
    ELSE ((a + b) % 2) + 2 * Xor(a \div 2, b \div 2)

\* a << n on numbers: shift the 32-bit conversion, keep the low 32 bits, signed
Shl(a, n) == ToInt32(MulPow2(FromInt(ToInt32(a)), n % 32))

\* x >> n on a 32-bit signed integer: the arithmetic shift
RECURSIVE ShiftRight(_, _)
ShiftRight(x, n) == IF n > 8 THEN ShiftRight(x \div (2^8), n - 8) ELSE x \div (2^n)

\* a >> n on numbers: arithmetic shift of the 32-bit conversion
Sar(a, n) == ShiftRight(ToInt32(a), n % 32)

---------------------------------------------------------------------------
(* BitView                                                                 *)

\* The typed array holding the view's window: indices from 0; a read outside
\* it yields undefined, which the bitwise operators convert to 0, and a
\* write outside it is dropped.
InRange(buf, i) == 0 <= i /\ i < Len(buf)

ByteAt(buf, i) == IF InRange(buf, i) THEN buf[i + 1] ELSE 0

SetByte(buf, i, v) == IF InRange(buf, i) THEN [buf EXCEPT ![i + 1] = v % (2^8)] ELSE buf

\* new BitView(buffer, byteOffset, byteLength): the window it holds
\* (subarray clamps its ends to the region) and the length it records.
BitView(region, byteOffset, len) ==
    LET n     == Len(region)
        begin == IF byteOffset < 0 THEN (IF n + byteOffset < 0 THEN 0 ELSE n + byteOffset)
                 ELSE IF byteOffset > n THEN n ELSE byteOffset
        e0    == byteOffset + len
        end   == IF e0 < 0 THEN (IF n + e0 < 0 THEN 0 ELSE n + e0)
                 ELSE IF e0 > n THEN n ELSE e0
    IN  [buffer     |-> IF byteOffset = 0 /\ len = n THEN region
                        ELSE SubSeq(region, begin + 1, end),
         byteLength |-> len,
         bitLength  |-> len * 8]

bitLength == byteLength * 8

\* A bounds check that lets a span run one bit past the end.
checkBoundsLoose(bitLen, offset, bits) ==
    LET available == bitLen - offset + 1
    IN  bits > available

\* checkBounds: TRUE when it throws.
checkBounds(bitLen, offset, bits) ==
    LET available == bitLen - offset
    IN  bits > available

\* A getBit that counts the bits of a byte from its least significant end.
getBitLsbFirst(buf, offset) ==
    And(ShiftRight(ByteAt(buf, ShiftRight(offset, 3)), And(offset, 7)), 1)

getBit(buf, offset) ==
    And(ShiftRight(ByteAt(buf, ShiftRight(offset, 3)), 7 - And(offset, 7)), 1)

startBitOffsetOf(offset) == And(offset, 7)

endBitOffsetOf(offset, bits) ==
    LET e == And(offset + bits, 7)
    IN  8 - (IF e # 0 THEN e ELSE 8)

\* The pieces of one iteration of getBits' loop.
byteOf(buf, i, startByte, endByte, sbo, ebo) ==
    LET b0 == ByteAt(buf, i)
        b1 == IF i = startByte THEN And(b0, ShiftRight(255, sbo)) ELSE b0
    IN  IF i = endByte THEN ShiftRight(b1, ebo) ELSE b1

shiftOf(i, startByte, endByte, sbo, ebo) ==
    LET s1 == IF i = startByte THEN 8 - sbo ELSE 8
    IN  IF i = endByte THEN s1 - ebo ELSE s1

\* value <<= shift, or value *= 2 ** shift
shiftValue(value, written, shift) ==
    IF written <= 32 THEN FromInt(Shl(value, shift)) ELSE DMulPow2(value, shift)

\* value |= byte, or value += byte
addByte(value, written, byte) ==
    IF written <= 32 THEN FromInt(Or(ToInt32(value), byte)) ELSE DAdd(value, FromInt(byte))

\* value >>>= 0 when exactly 32 bits of an unsigned read are in
coerce32(value, written, signed) ==
    IF ~signed /\ written = 32 THEN ToUint32(value) ELSE value

\* One iteration of getBits' loop, for byte i; acc is [value, written, nan].
\* nan: an undefined element (outside the window) added as a number.
getBitsStep(buf, i, startByte, endByte, sbo, ebo, signed, acc) ==
    LET byte    == byteOf(buf, i, startByte, endByte, sbo, ebo)
        shift   == shiftOf(i, startByte, endByte, sbo, ebo)
        written == acc.written + shift
    IN  [value   |-> coerce32(addByte(IF i # startByte
                                      THEN shiftValue(acc.value, written, shift)
                                      ELSE acc.value,
                                      written, byte),
                              written, signed),
         written |-> written,
         nan     |-> written > 32 /\ (acc.nan \/ (~InRange(buf, i) /\ i # startByte /\ i # endByte))]

\* The loop binds each iteration's result before it goes on.
RECURSIVE getBitsLoop(_, _, _, _, _, _, _, _)
getBitsLoop(buf, i, startByte, endByte, sbo, ebo, signed, acc) ==
    IF i > endByte THEN acc
    ELSE CHOOSE r \in { getBitsLoop(buf, i + 1, startByte, endByte, sbo, ebo, signed, a) :
                          a \in {getBitsStep(buf, i, startByte, endByte, sbo, ebo, signed, acc)} } :
             TRUE

\* The conversion to a signed value that ends getBits.
signConvert(value, bits) ==
    IF bits < 32 /\ Sar(value, bits - 1) > 0
    THEN FromInt(Or(ToInt32(value),
                    Xor(-1, ToInt32(Sub(FromInt(Shl(FromInt(1), bits)), FromInt(1))))))
    ELSE IF bits > 32 /\ Gt(value, Pow2N(bits - 1))
    THEN DSub(value, Pow2N(bits))
    ELSE value

getBitsResult(acc, bits, signed) ==
    [threw |-> FALSE,
     value |-> IF signed /\ ~acc.nan THEN signConvert(acc.value, bits) ELSE acc.value,
     nan   |-> acc.nan]

\* getBits: [threw, value, nan]
getBits(buf, bitLen, offset, bits, signed) ==
    IF checkBounds(bitLen, offset, bits)
    THEN [threw |-> TRUE, value |-> Zero, nan |-> FALSE]
    ELSE getBitsResult(getBitsLoop(buf, ShiftRight(offset, 3), ShiftRight(offset, 3),
                                   ShiftRight(offset + bits - 1, 3),
                                   startBitOffsetOf(offset), endBitOffsetOf(offset, bits), signed,
                                   [value |-> Zero, written |-> 0, nan |-> FALSE]),
                       bits, signed)

setBit(buf, offset, value) ==
    LET i == ShiftRight(offset, 3)
        m == ShiftRight(128, And(offset, 7))
    IN  IF value = 1 THEN SetByte(buf, i, Or(ByteAt(buf, i), m))
        ELSE SetByte(buf, i, And(ByteAt(buf, i), Not(m)))

\* The chunk setBits takes from value for a byte of `read` bits, and what is
\* left of value: <<byte, value>>.
takeChunk(value, bits, read) ==
    IF bits <= 32
    THEN <<And(ToInt32(value), ShiftRight(255, read)), FromInt(Sar(value, read))>>
    ELSE LET r    == JsRem(value, read)
             byte == IF r < 0 THEN r + 2^read ELSE r
         IN  <<byte, DDivPow2(DSub(value, FromInt(byte)), read)>>

\* One iteration of setBits' loop, for byte i; st is [buf, value, bits].
setBitsStep(i, startByte, endByte, sbo, ebo, st) ==
    LET r1    == IF i = startByte THEN 8 - sbo ELSE 8
        m1    == IF i = startByte THEN And(255, ShiftRight(255, sbo)) ELSE 255
        read  == IF i = endByte THEN r1 - ebo ELSE r1
        mask  == IF i = endByte THEN And(m1, 255 * 2^ebo) ELSE m1
        shift == IF i = endByte THEN ebo ELSE 0
        ch    == takeChunk(st.value, st.bits, read)
        byte  == ch[1]
    IN  [buf   |-> SetByte(st.buf, i, Or(And(ByteAt(st.buf, i), Not(mask)), byte * 2^shift)),
         value |-> ch[2],
         bits  |-> st.bits - read]

RECURSIVE setBitsLoop(_, _, _, _, _, _)
setBitsLoop(i, startByte, endByte, sbo, ebo, st) ==
    IF i < startByte THEN st
    ELSE CHOOSE r \in { setBitsLoop(i - 1, startByte, endByte, sbo, ebo, a) :
                          a \in {setBitsStep(i, startByte, endByte, sbo, ebo, st)} } :
             TRUE

\* setBits: [threw, buf]
setBits(buf, bitLen, offset, value, bits) ==
    IF checkBounds(bitLen, offset, bits)
    THEN [threw |-> TRUE, buf |-> buf]
    ELSE [threw |-> FALSE,
          buf   |-> setBitsLoop(ShiftRight(offset + bits - 1, 3), ShiftRight(offset, 3),
                                ShiftRight(offset + bits - 1, 3),
                                startBitOffsetOf(offset), endBitOffsetOf(offset, bits),
                                [buf |-> buf, value |-> value, bits |-> bits]).buf]

---------------------------------------------------------------------------
(* Calls on a BitView, and what the caller observes                        *)

\* The record of a call: its arguments, the region (and, for a stream, the
\* cursors) before it, whether it threw, and what it returned.
NoOp ==
    [op |-> "none", stream |-> "view", offset |-> 0, bits |-> 0, value |-> Zero,
     signed |-> FALSE, threw |-> FALSE, result |-> Zero, nan |-> FALSE,
     pre |-> <<>>, bytes |-> <<>>, text |-> <<>>, len |-> 0, cursors |-> <<>>]

\* Bounds of the random-access model.
ViewBytes == 9
SmallBytes == 2
MaxOffset == 7
MaxBits == 64

RECURSIVE DivPow2N(_, _)
DivPow2N(a, s) == IF s > 8 THEN DivPow2N(DivPow2(a, 8), s - 8) ELSE DivPow2(a, s)

\* a mod 2^s, as a number
ModPow2N(a, s) == Sub(a, MulPow2(DivPow2N(a, s), s))

\* Region contents the model starts from.
Zeros(n) == [i \in 1..n |-> 0]
Ones(n) == [i \in 1..n |-> 255]
Counting(n) == [i \in 1..n |-> i]
OneBit(n, p) == [i \in 1..n |-> IF i - 1 = p \div 8 THEN 2^(7 - (p % 8)) ELSE 0]

Regions(n) == {Zeros(n), Ones(n), Counting(n)} \cup {OneBit(n, p) : p \in 0..MaxOffset}

ViewRegions == Regions(ViewBytes) \cup {Zeros(SmallBytes), Ones(SmallBytes)}

\* The value of the bytes 01 02 03 ... 08 read as one big-endian integer.
CountingValue == <<258, 197637, 395016>>

\* Its leading `bits` bits: 0x01020304 for 32.
CountingPrefix(bits) == IF bits <= 64 THEN DivPow2N(CountingValue, 64 - bits) ELSE CountingValue

\* The largest double below 2^bits.
MaxDouble(bits) ==
    IF bits <= MantissaBits THEN Sub(Pow2N(bits), FromInt(1))
    ELSE Sub(Pow2N(bits), Pow2N(bits - MantissaBits))

\* Values written into a field of `bits` bits: every one is a double.
FieldValues(bits) ==
    { v \in { Zero, FromInt(1), Sub(Pow2N(bits), FromInt(1)), MaxDouble(bits),
              Pow2N(bits - 1), Sub(Pow2N(bits - 1), FromInt(1)),
              ModPow2N(CountingValue, bits), CountingPrefix(bits),
              FromInt(-1), Neg(Pow2N(bits - 1)), Neg(MaxDouble(bits)) } : IsDouble(v) }

ViewOffsets == 0..MaxOffset

ViewWidths == 1..MaxBits

\* No method of BitView or BitStream assigns bigEndian.
Record(call) ==
    /\ last' = call
    /\ ops' = ops + 1
    /\ UNCHANGED bigEndian

\* The random-access model makes one call on a view over any of the regions.
Fresh == ops = 0

callGetBits(offset, bits, signed) ==
    /\ Fresh
    /\ \E r \in {getBits(buffer, bitLength, offset, bits, signed)} :
           Record([NoOp EXCEPT !.op = "getBits", !.offset = offset, !.bits = bits,
                               !.signed = signed, !.threw = r.threw, !.result = r.value,
                               !.nan = r.nan, !.pre = buffer])
    /\ UNCHANGED <<buffer, byteLength, bitIndex, consumed>>

callSetBits(offset, value, bits) ==
    /\ Fresh
    /\ \E r \in {setBits(buffer, bitLength, offset, value, bits)} :
           /\ buffer' = r.buf
           /\ Record([NoOp EXCEPT !.op = "setBits", !.offset = offset, !.bits = bits,
                                  !.value = value, !.threw = r.threw, !.pre = buffer])
    /\ UNCHANGED <<byteLength, bitIndex, consumed>>

callGetBit(offset) ==
    /\ Fresh
    /\ Record([NoOp EXCEPT !.op = "getBit", !.offset = offset, !.bits = 1,
                           !.result = FromInt(getBit(buffer, offset)), !.pre = buffer])
    /\ UNCHANGED <<buffer, byteLength, bitIndex, consumed>>

callSetBit(offset, value) ==
    /\ Fresh
    /\ buffer' = setBit(buffer, offset, value)
    /\ Record([NoOp EXCEPT !.op = "setBit", !.offset = offset, !.bits = 1,
                           !.value = FromInt(value), !.pre = buffer])
    /\ UNCHANGED <<byteLength, bitIndex, consumed>>

Streams == {"bsw", "bsr"}

ViewInit ==
    /\ \E region \in ViewRegions :
         LET v == BitView(region, 0, Len(region))
         IN  /\ buffer = v.buffer
             /\ byteLength = v.byteLength
    /\ bitIndex = [s \in Streams |-> 0]
    /\ consumed = [s \in Streams |-> [sum |-> 0, seeked |-> FALSE]]
    /\ last = NoOp
    /\ ops = 0
    /\ bigEndian = TRUE

\* Single-bit offsets: inside the region, and up to a byte past its end.
BitOffsets == 0..(bitLength + MaxOffset)

GetBitsCall ==
    Fresh /\ \E offset \in ViewOffsets, bits \in ViewWidths, signed \in BOOLEAN :
                callGetBits(offset, bits, signed)

SetBitsCall ==
    Fresh /\ \E offset \in ViewOffsets, bits \in ViewWidths :
                \E value \in FieldValues(bits) : callSetBits(offset, value, bits)

GetBitCall == Fresh /\ \E offset \in BitOffsets : callGetBit(offset)

SetBitCall == Fresh /\ \E offset \in BitOffsets, value \in {0, 1} : callSetBit(offset, value)

ViewNext == GetBitsCall \/ SetBitsCall \/ GetBitCall \/ SetBitCall

ViewSpec == ViewInit /\ [][ViewNext]_vars

---------------------------------------------------------------------------
(* Buffers and strings on a BitView                                        *)

\* readBuffer: [threw, bytes]; the bytes are read one getUint8 at a time.
RECURSIVE readBufferLoop(_, _, _, _, _, _)
readBufferLoop(buf, bitLen, offset, n, i, acc) ==
    IF i >= n THEN [threw |-> FALSE, bytes |-> acc]
    ELSE CHOOSE res \in
             { IF r.threw THEN [threw |-> TRUE, bytes |-> acc]
               ELSE readBufferLoop(buf, bitLen, offset, n, i + 1, Append(acc, ToInt32(r.value))) :
               r \in {getBits(buf, bitLen, offset + i * 8, 8, FALSE)} } : TRUE

viewReadBuffer(buf, bitLen, offset, n) == readBufferLoop(buf, bitLen, offset, n, 0, <<>>)

\* writeBuffer: [threw, buf, len]; the bytes are written one setUint8 at a
\* time, so a throw leaves the bytes written before it in the region.
RECURSIVE writeBufferLoop(_, _, _, _, _)
writeBufferLoop(buf, bitLen, offset, bytes, i) ==
    IF i >= Len(bytes) THEN [threw |-> FALSE, buf |-> buf, len |-> Len(bytes)]
    ELSE CHOOSE res \in
             { IF r.threw THEN [threw |-> TRUE, buf |-> r.buf, len |-> 0]
               ELSE writeBufferLoop(r.buf, bitLen, offset, bytes, i + 1) :
               r \in {setBits(buf, bitLen, offset + i * 8, FromInt(bytes[i + 1]), 8)} } : TRUE

viewWriteBuffer(buf, bitLen, offset, bytes) == writeBufferLoop(buf, bitLen, offset, bytes, 0)

\* TextEncoder: a string is a sequence of code points (below 2^16, no
\* surrogates); each becomes one to three bytes of UTF-8.
Utf8(cp) ==
    IF cp < 128 THEN <<cp>>
    ELSE IF cp < 2048 THEN <<192 + (cp \div 64), 128 + (cp % 64)>>
    ELSE <<224 + (cp \div 4096), 128 + ((cp \div 64) % 64), 128 + (cp % 64)>>

RECURSIVE encode(_)
encode(string) ==
    IF string = <<>> THEN <<>> ELSE Utf8(Head(string)) \o encode(Tail(string))

\* encodeInto(string, dest): whole characters while they fit; the rest of
\* dest keeps its zeros.
RECURSIVE encodeIntoFrom(_, _, _)
encodeIntoFrom(string, room, acc) ==
    IF string = <<>> \/ Len(Utf8(Head(string))) > room THEN acc
    ELSE encodeIntoFrom(Tail(string), room - Len(Utf8(Head(string))), acc \o Utf8(Head(string)))

encodeInto(string, n) ==
    LET written == encodeIntoFrom(string, n, <<>>)
    IN  written \o [i \in 1..(n - Len(written)) |-> 0]

\* writeString: byteLength is a length, or -1 for an omitted argument.
Omitted == 0 - 1

viewWriteString(buf, bitLen, offset, string, len) ==
    viewWriteBuffer(buf, bitLen, offset,
                    IF len = Omitted THEN encode(string) ELSE encodeInto(string, len))

---------------------------------------------------------------------------
(* BitStream                                                               *)

\* Bounds of the stream model.
StreamBytes == 4
MaxOps == 3

bitsLeft(s) == bitLength - bitIndex[s]

\* A byteIndex getter that rounds down.
byteIndexFloor(s) == bitIndex[s] \div 8

\* get byteIndex: Math.ceil(bitIndex / 8)
byteIndex(s) == -((-bitIndex[s]) \div 8)

\* The width a completed call is said to consume: 1 for a bit, `bits` for
\* readBits and writeBits, 8 for each byte a buffer or string call moved.
ConsumedWidth(call) ==
    IF call.op \in {"readBit", "writeBit"} THEN 1
    ELSE IF call.op \in {"readBits", "writeBits"} THEN call.bits
    ELSE IF call.op \in {"readBuffer", "writeBuffer", "readString", "writeString"}
    THEN 8 * Len(call.bytes)
    ELSE 0

\* The observer's books: the call, and per stream the widths consumed by
\* the calls that returned since the stream was built.
Observe(s, call) ==
    /\ Record(call)
    /\ consumed' = [consumed EXCEPT
                       ![s].sum = IF call.threw THEN @ ELSE @ + ConsumedWidth(call),
                       ![s].seeked = @ \/ call.op \in {"setIndex", "setByteIndex"}]

StreamCall(s, name) ==
    [NoOp EXCEPT !.op = name, !.stream = s, !.offset = bitIndex[s], !.pre = buffer,
                 !.cursors = bitIndex]

readBit(s) ==
    /\ ops < MaxOps
    /\ Observe(s, [StreamCall(s, "readBit") EXCEPT
                      !.bits = 1, !.result = FromInt(getBit(buffer, bitIndex[s]))])
    /\ bitIndex' = [bitIndex EXCEPT ![s] = @ + 1]
    /\ UNCHANGED <<buffer, byteLength>>

\* readInt8 .. readUint32 are readBits(8 | 16 | 32, signed).
readBits(s, bits, signed) ==
    /\ ops < MaxOps
    /\ \E r \in {getBits(buffer, bitLength, bitIndex[s], bits, signed)} :
          /\ Observe(s, [StreamCall(s, "readBits") EXCEPT
                            !.bits = bits, !.signed = signed, !.threw = r.threw,
                            !.result = r.value, !.nan = r.nan])
          /\ bitIndex' = IF r.threw THEN bitIndex ELSE [bitIndex EXCEPT ![s] = @ + bits]
    /\ UNCHANGED <<buffer, byteLength>>

writeBit(s, value) ==
    /\ ops < MaxOps
    /\ buffer' = setBit(buffer, bitIndex[s], value)
    /\ Observe(s, [StreamCall(s, "writeBit") EXCEPT !.bits = 1, !.value = FromInt(value)])
    /\ bitIndex' = [bitIndex EXCEPT ![s] = @ + 1]
    /\ UNCHANGED byteLength

\* writeInt8 .. writeUint32 are writeBits(value, 8 | 16 | 32).
writeBits(s, value, bits) ==
    /\ ops < MaxOps
    /\ \E r \in {setBits(buffer, bitLength, bitIndex[s], value, bits)} :
          /\ buffer' = r.buf
          /\ Observe(s, [StreamCall(s, "writeBits") EXCEPT
                            !.bits = bits, !.value = value, !.threw = r.threw])
          /\ bitIndex' = IF r.threw THEN bitIndex ELSE [bitIndex EXCEPT ![s] = @ + bits]
    /\ UNCHANGED byteLength

readBuffer(s, n) ==
    /\ ops < MaxOps
    /\ \E r \in {viewReadBuffer(buffer, bitLength, bitIndex[s], n)} :
          /\ Observe(s, [StreamCall(s, "readBuffer") EXCEPT
                            !.len = n, !.threw = r.threw,
                            !.bytes = IF r.threw THEN <<>> ELSE r.bytes])
          /\ bitIndex' = IF r.threw THEN bitIndex ELSE [bitIndex EXCEPT ![s] = @ + n * 8]
    /\ UNCHANGED <<buffer, byteLength>>

\* A writeBuffer that moves the cursor before the view has written.
writeBufferEager(s, bytes) ==
    /\ ops < MaxOps
    /\ \E r \in {viewWriteBuffer(buffer, bitLength, bitIndex[s], bytes)} :
          /\ buffer' = r.buf
          /\ Observe(s, [StreamCall(s, "writeBuffer") EXCEPT
                            !.bytes = bytes, !.threw = r.threw, !.len = r.len])
          /\ bitIndex' = [bitIndex EXCEPT ![s] = @ + Len(bytes) * 8]
    /\ UNCHANGED byteLength

writeBuffer(s, bytes) ==
    /\ ops < MaxOps
    /\ \E r \in {viewWriteBuffer(buffer, bitLength, bitIndex[s], bytes)} :
          /\ buffer' = r.buf
          /\ Observe(s, [StreamCall(s, "writeBuffer") EXCEPT
                            !.bytes = bytes, !.threw = r.threw, !.len = r.len])
          /\ bitIndex' = IF r.threw THEN bitIndex
                         ELSE [bitIndex EXCEPT ![s] = @ + Len(bytes) * 8]
    /\ UNCHANGED byteLength

\* readString: the bytes it hands to TextDecoder are recorded; the decoded
\* text is the decoder's business.
readString(s, n) ==
    /\ ops < MaxOps
    /\ \E r \in {viewReadBuffer(buffer, bitLength, bitIndex[s], n)} :
          /\ Observe(s, [StreamCall(s, "readString") EXCEPT
                            !.len = n, !.threw = r.threw,
                            !.bytes = IF r.threw THEN <<>> ELSE r.bytes])
          /\ bitIndex' = IF r.threw THEN bitIndex ELSE [bitIndex EXCEPT ![s] = @ + n * 8]
    /\ UNCHANGED <<buffer, byteLength>>

\* writeString: the record keeps the text, the byteLength argument (in
\* bits) and, when the call returns, the bytes it put into the region.
writeString(s, string, len) ==
    /\ ops < MaxOps
    /\ \E r \in {viewWriteString(buffer, bitLength, bitIndex[s], string, len)} :
          /\ buffer' = r.buf
          /\ Observe(s, [StreamCall(s, "writeString") EXCEPT
                            !.text = string, !.bits = len, !.threw = r.threw, !.len = r.len,
                            !.bytes = IF r.threw THEN <<>>
                                      ELSE viewReadBuffer(r.buf, bitLength, bitIndex[s], r.len).bytes])
          /\ bitIndex' = IF r.threw THEN bitIndex ELSE [bitIndex EXCEPT ![s] = @ + r.len * 8]
    /\ UNCHANGED byteLength

\* An index setter that keeps one cursor for every stream over the region.
setIndexShared(s, val) ==
    /\ ops < MaxOps
    /\ bitIndex' = [t \in DOMAIN bitIndex |-> val]
    /\ Observe(s, [StreamCall(s, "setIndex") EXCEPT !.value = FromInt(val)])
    /\ UNCHANGED <<buffer, byteLength>>

\* set index(val)
setIndex(s, val) ==
    /\ ops < MaxOps
    /\ bitIndex' = [bitIndex EXCEPT ![s] = val]
    /\ Observe(s, [StreamCall(s, "setIndex") EXCEPT !.value = FromInt(val)])
    /\ UNCHANGED <<buffer, byteLength>>

\* set byteIndex(val)
setByteIndex(s, val) ==
    /\ ops < MaxOps
    /\ bitIndex' = [bitIndex EXCEPT ![s] = val * 8]
    /\ Observe(s, [StreamCall(s, "setByteIndex") EXCEPT !.value = FromInt(val)])
    /\ UNCHANGED <<buffer, byteLength>>

\* Inputs of the stream model.
StreamWidths == {5, 16, 32}

StreamValues(bits) == {Sub(Pow2N(bits), FromInt(1)), Neg(Pow2N(bits - 1))}

StreamBuffers == {<<171, 205>>}

\* "a" followed by the euro sign: four bytes of UTF-8
StreamStrings == {<<97, 8364>>}

StringLengths == {Omitted, 2, 5}

\* bsw is built over a view of the region and bsr over the region itself:
\* both hold a view of the whole region.
Init ==
    /\ LET v == BitView(Counting(StreamBytes), 0, StreamBytes)
       IN  /\ buffer = v.buffer
           /\ byteLength = v.byteLength
    /\ bitIndex = [s \in Streams |-> 0]
    /\ consumed = [s \in Streams |-> [sum |-> 0, seeked |-> FALSE]]
    /\ last = NoOp
    /\ ops = 0
    /\ bigEndian = TRUE

ReadBit == \E s \in Streams : readBit(s)

ReadBits == \E s \in Streams, bits \in StreamWidths, signed \in BOOLEAN : readBits(s, bits, signed)

WriteBit == \E s \in Streams, value \in {0, 1} : writeBit(s, value)

WriteBits ==
    \E s \in Streams, bits \in StreamWidths : \E value \in StreamValues(bits) : writeBits(s, value, bits)

ReadBuffer == \E s \in Streams, n \in {0, 2} : readBuffer(s, n)

WriteBuffer == \E s \in Streams, bytes \in StreamBuffers : writeBuffer(s, bytes)

ReadString == \E s \in Streams : readString(s, 2)

WriteString ==
    \E s \in Streams, string \in StreamStrings, len \in StringLengths : writeString(s, string, len)

SetIndex == \E s \in Streams : setIndex(s, bitLength - 3)

SetByteIndex == \E s \in Streams : setByteIndex(s, 1)

Next ==
    \/ ReadBit \/ ReadBits \/ WriteBit \/ WriteBits
    \/ ReadBuffer \/ WriteBuffer \/ ReadString \/ WriteString
    \/ SetIndex \/ SetByteIndex

Spec == Init /\ [][Next]_vars

---------------------------------------------------------------------------
(* Views built with a window, and calls at any offset                      *)

\* Bound of the window model: the length of the region a view is built on.
WindowBytes == 4

\* bb.bigEndian = b: the attribute the README documents. The class declares
\* no such member and no method reads one; the assignment only stores it.
setBigEndian(b) ==
    /\ Fresh
    /\ bigEndian' = b
    /\ UNCHANGED <<buffer, byteLength, bitIndex, last, consumed, ops>>

\* new BitView(region, byteOffset, byteLength) for any start inside the
\* region and any length up to one byte more than the region has.
WindowInit ==
    /\ \E byteOffset \in 0..WindowBytes, len \in 0..(WindowBytes + 1) :
         LET v == BitView(Counting(WindowBytes), byteOffset, len)
         IN  /\ buffer = v.buffer
             /\ byteLength = v.byteLength
    /\ bitIndex = [s \in Streams |-> 0]
    /\ consumed = [s \in Streams |-> [sum |-> 0, seeked |-> FALSE]]
    /\ last = NoOp
    /\ ops = 0
    /\ bigEndian = TRUE

\* Offsets from two bytes before the view to a byte past its end.
WindowOffsets == (0 - 2 * 8)..(bitLength + MaxOffset)

WindowWidths == {1, 8, 16}

WindowValues(bits) == {FromInt(1), Sub(Pow2N(bits), FromInt(1))}

SwitchEndianness == \E b \in BOOLEAN : setBigEndian(b)

WindowGetBits ==
    Fresh /\ \E offset \in WindowOffsets, bits \in WindowWidths : callGetBits(offset, bits, FALSE)

WindowSetBits ==
    Fresh /\ \E offset \in WindowOffsets, bits \in WindowWidths :
                \E value \in WindowValues(bits) : callSetBits(offset, value, bits)

WindowGetBit == Fresh /\ \E offset \in WindowOffsets : callGetBit(offset)

WindowSetBit == Fresh /\ \E offset \in WindowOffsets, value \in {0, 1} : callSetBit(offset, value)

WindowNext ==
    SwitchEndianness \/ WindowGetBits \/ WindowSetBits \/ WindowGetBit \/ WindowSetBit

WindowSpec == WindowInit /\ [][WindowNext]_vars

---------------------------------------------------------------------------
(* What the region holds, read off its bits without the library           *)

\* The bit at position p, the first byte's most significant bit being 0.
BitAt(buf, p) == (buf[(p \div 8) + 1] \div (2 ^ (7 - (p % 8)))) % 2

\* The integer spelt by the n bits from position first on (n <= 24).
RECURSIVE BitsValue(_, _, _)
BitsValue(buf, first, n) ==
    IF n = 0 THEN 0 ELSE 2 * BitsValue(buf, first, n - 1) + BitAt(buf, first + n - 1)

\* The integer whose binary digits, most significant first, are the bits
\* at positions offset .. offset + bits - 1.
ExactField(buf, offset, bits) ==
    LET nl == IF bits < 24 THEN bits ELSE 24
        nm == IF bits - nl < 24 THEN bits - nl ELSE 24
        nh == bits - nl - nm
    IN  Norm3(BitsValue(buf, offset, nh),
              BitsValue(buf, offset + nh, nm),
              BitsValue(buf, offset + nh + nm, nl))

InUnsignedRange(value, bits) == ~IsNeg(value) /\ Lt(value, Pow2N(bits))

InSignedRange(value, bits) == ~Lt(value, Neg(Pow2N(bits - 1))) /\ Lt(value, Pow2N(bits - 1))

TwosComplement(u, bits) == IF Lt(u, Pow2N(bits - 1)) THEN u ELSE Sub(u, Pow2N(bits))

Wrote == last.op = "setBits" /\ ~last.threw

ReadBack(signed) == getBits(buffer, bitLength, last.offset, last.bits, signed)

---------------------------------------------------------------------------
(* Claims                                                                  *)

\* C1: unsigned round trip. After setBits(offset, value, bits) with
\* 0 <= value <= 2^bits - 1, getBits(offset, bits, false) returns value,
\* whatever the region held before.
C1_UnsignedRoundTrip ==
    (Wrote /\ InUnsignedRange(last.value, last.bits))
        => LET r == ReadBack(FALSE) IN ~r.threw /\ ~r.nan /\ r.value = last.value

\* C2: signed round trip. After setBits(offset, value, bits) with
\* -2^(bits-1) <= value <= 2^(bits-1) - 1, getBits(offset, bits, true)
\* returns value.
C2_SignedRoundTrip ==
    (Wrote /\ InSignedRange(last.value, last.bits))
        => LET r == ReadBack(TRUE) IN ~r.threw /\ ~r.nan /\ r.value = last.value

\* C3: bounds enforcement. A getBits or setBits call with
\* offset + bits > bitLength throws, and a setBits that throws leaves every
\* byte of the region as it was before the call.
C3_BoundsEnforced ==
    last.op \in {"getBits", "setBits"}
        => /\ last.offset + last.bits > bitLength => last.threw
           /\ (last.op = "setBits" /\ last.threw) => buffer = last.pre

\* C3 happens: a setBits whose span ends one bit past the region threw.
C3_Witness ==
    /\ last.op = "setBits"
    /\ last.offset + last.bits = bitLength + 1
    /\ last.threw
    /\ buffer = last.pre

\* C4: non-destructive writes. A setBits(offset, value, bits) that returns,
\* with -2^(bits-1) <= value <= 2^bits - 1, changes no bit of the region
\* outside [offset, offset + bits).
C4_FramePreserved ==
    (Wrote /\ ~Lt(last.value, Neg(Pow2N(last.bits - 1))) /\ Lt(last.value, Pow2N(last.bits)))
        => \A p \in 0..(bitLength - 1) :
              (p < last.offset \/ p >= last.offset + last.bits)
                  => BitAt(buffer, p) = BitAt(last.pre, p)

\* C5: cursor advance. On a stream that has not been repositioned, bitIndex
\* is the sum of the widths consumed by the calls that returned; and
\* byteIndex is always the least integer q with 8 * q >= bitIndex.
C5_CursorAdvance ==
    \A s \in Streams :
        /\ ~consumed[s].seeked => bitIndex[s] = consumed[s].sum
        /\ 8 * byteIndex(s) >= bitIndex[s]
        /\ 8 * byteIndex(s) < bitIndex[s] + 8

\* C5 happens: a stream stands at 21 = 5 + 16 after two calls of widths 5
\* and 16, off a byte boundary, and byteIndex is 3.
C5_Witness ==
    \E s \in Streams :
        /\ ~consumed[s].seeked
        /\ consumed[s].sum = 21
        /\ bitIndex[s] = 21
        /\ byteIndex(s) = 3

\* C6: exact unsigned decoding. getBits(offset, bits, false), when it
\* returns, returns the integer whose binary digits are the region's bits
\* at offset .. offset + bits - 1, most significant first.
C6_ExactUnsigned ==
    (last.op = "getBits" /\ ~last.signed /\ ~last.threw)
        => ~last.nan /\ last.result = ExactField(last.pre, last.offset, last.bits)

\* C7: exact signed decoding. getBits(offset, bits, true), when it returns,
\* returns u if u < 2^(bits-1) and u - 2^bits otherwise, u being what
\* getBits(offset, bits, false) returns for the same bits.
C7_ExactSigned ==
    (last.op = "getBits" /\ last.signed /\ ~last.threw)
        => LET u == getBits(last.pre, bitLength, last.offset, last.bits, FALSE).value
           IN  ~last.nan /\ last.result = TwosComplement(u, last.bits)

\* C8: stored bit layout. After setBits(offset, value, bits) with
\* 0 <= value < 2^bits the region's bits at offset .. offset + bits - 1 are
\* the binary digits of value, most significant first.
C8_StoredLayout ==
    (Wrote /\ InUnsignedRange(last.value, last.bits))
        => ExactField(buffer, last.offset, last.bits) = last.value

\* C9: negative writes. After setBits(offset, v, N) with -2^N < v < 0,
\* getBits(offset, N, false) returns v + 2^N.
C9_NegativeWrite ==
    (Wrote /\ IsNeg(last.value) /\ Gt(last.value, Neg(Pow2N(last.bits))))
        => LET r == ReadBack(FALSE)
           IN  ~r.threw /\ ~r.nan /\ r.value = Add(last.value, Pow2N(last.bits))

\* C10: single-bit bounds. getBit(offset) and setBit(offset, value) throw
\* whenever offset >= bitLength.
C10_SingleBitBounds ==
    (last.op \in {"getBit", "setBit"} /\ last.offset >= bitLength) => last.threw

\* C11: atomic failure of multi-byte writes. A writeBuffer or writeString
\* call that throws has changed no byte of the region.
C11_AtomicFailure ==
    (last.op \in {"writeBuffer", "writeString"} /\ last.threw) => buffer = last.pre

\* The first L bytes of the string's encoding, followed by zeros up to L.
ExpectedString(text, L) ==
    [i \in 1..L |-> IF i <= Len(encode(text)) THEN encode(text)[i] ELSE 0]

\* C12: writeString with an explicit byteLength L returns L, and the L bytes
\* at the offset are then the string's encoding cut to L bytes, or followed
\* by zeros up to L: readBuffer(offset, L) returns them.
C12_ExplicitLength ==
    (last.op = "writeString" /\ last.bits # Omitted /\ ~last.threw)
        => /\ last.len = last.bits
           /\ viewReadBuffer(buffer, bitLength, last.offset, last.bits).bytes
                  = ExpectedString(last.text, last.bits)

\* A read through a stream returns the bits the region holds at the
\* stream's cursor, whichever accessor wrote them.
ReadsSeeRegion ==
    /\ (last.op = "readBit" /\ 0 <= last.offset /\ last.offset < bitLength)
           => last.result = FromInt(BitAt(buffer, last.offset))
    /\ (last.op = "readBits" /\ ~last.threw /\ ~last.signed)
           => last.result = ExactField(buffer, last.offset, last.bits)
    /\ (last.op \in {"readBuffer", "readString"} /\ ~last.threw)
           => \A i \in 1..last.len :
                  FromInt(last.bytes[i]) = ExactField(buffer, last.offset + 8 * (i - 1), 8)

\* A call on one stream leaves the other streams' cursors alone.
CursorsIndependent ==
    last.stream \in Streams
        => \A t \in Streams : t # last.stream => bitIndex[t] = last.cursors[t]

\* C13: shared region, independent cursors. Every stream reads what the
\* one region holds after the calls of all of them, and a call on one
\* stream never changes another stream's bitIndex.
C13_SharedRegion == ReadsSeeRegion /\ CursorsIndependent

\* C13 happens: bsr, which has written nothing, reads 1 at bit 0, where the
\* region was built with 0: the bit was written through bsw, whose cursor
\* stands where its own call left it.
C13_Witness ==
    /\ last.stream = "bsr" /\ last.op = "readBit" /\ last.offset = 0
    /\ last.result = FromInt(1)
    /\ BitAt(Counting(StreamBytes), 0) = 0
    /\ consumed["bsr"] = [sum |-> 1, seeked |-> FALSE]
    /\ bitIndex = [bsw |-> 1, bsr |-> 1]

\* C17: cursor unchanged on failure. When a stream call throws, the
\* stream's bitIndex is what it was before the call.
C17_CursorOnFailure ==
    (last.stream \in Streams /\ last.threw) => bitIndex[last.stream] = last.offset

\* C17 happens: a writeBuffer away from the start threw after it had
\* changed the region, and the cursor did not move.
C17_Witness ==
    /\ last.stream \in Streams /\ last.op = "writeBuffer" /\ last.threw
    /\ last.offset > 0
    /\ buffer # last.pre
    /\ bitIndex[last.stream] = last.offset

\* C14: window consistency. The byteLength a view records is the length
\* of the window it holds (bitLength is 8 x byteLength by definition), so a
\* getBits or setBits the bounds check lets through at an offset >= 0
\* addresses bytes of the window only.
C14_WindowConsistent ==
    /\ byteLength = Len(buffer)
    /\ (last.op \in {"getBits", "setBits"} /\ ~last.threw /\ last.offset >= 0)
           => (last.offset + last.bits - 1) \div 8 < Len(buffer)

\* The bytes from index `first` on, the first one least significant.
RECURSIVE LittleEndianValue(_, _, _)
LittleEndianValue(buf, first, n) ==
    IF n = 0 THEN 0 ELSE buf[first + 1] + 256 * LittleEndianValue(buf, first + 1, n - 1)

\* C15: endianness mode. A getBits of whole bytes at a byte boundary
\* composes them first byte most significant while the view is big-endian,
\* and first byte least significant once it was switched to little-endian.
C15_EndiannessMode ==
    (/\ last.op = "getBits" /\ ~last.threw /\ ~last.signed
     /\ last.offset >= 0 /\ last.offset % 8 = 0 /\ last.bits % 8 = 0
     /\ (last.offset + last.bits) \div 8 <= Len(last.pre))
        => last.result =
              IF bigEndian THEN ExactField(last.pre, last.offset, last.bits)
              ELSE FromInt(LittleEndianValue(last.pre, last.offset \div 8, last.bits \div 8))

\* C16: negative offsets are rejected. getBit, setBit, getBits and setBits
\* at an offset below 0 throw, and the region is as it was.
C16_NegativeOffsets ==
    (last.op \in {"getBit", "setBit", "getBits", "setBits"} /\ last.offset < 0)
        => last.threw /\ buffer = last.pre

\* C18: single-bit and multi-bit accessors agree. Inside the view,
\* getBit(offset) returns what getBits(offset, 1, false) returns;
\* setBit(offset, value) leaves the region as setBits(offset, value, 1)
\* does; and a bit set through either is read back through the other.
C18_BitAccessorsAgree ==
    (0 <= last.offset /\ last.offset < bitLength) =>
        /\ last.op = "getBit" =>
               LET r == getBits(last.pre, bitLength, last.offset, 1, FALSE)
               IN  ~r.threw /\ ~r.nan /\ last.result = r.value
        /\ last.op = "setBit" =>
               /\ buffer = setBits(last.pre, bitLength, last.offset, last.value, 1).buf
               /\ getBits(buffer, bitLength, last.offset, 1, FALSE).value = last.value
        /\ (last.op = "setBits" /\ last.bits = 1 /\ last.value \in {Zero, FromInt(1)})
               => FromInt(getBit(buffer, last.offset)) = last.value

\* C18 happens: setBit set a bit in the middle of a byte that was 0.
C18_Witness ==
    /\ last.op = "setBit" /\ last.value = FromInt(1)
    /\ 0 <= last.offset /\ last.offset < bitLength /\ last.offset % 8 = 3
    /\ buffer # last.pre
    /\ getBits(buffer, bitLength, last.offset, 1, FALSE).value = FromInt(1)

====
